---------------------------- MODULE Spec2Model ----------------------------
(***************************************************************************)
(* A model of the review handler of github-pr-review.rs.                   *)
(*                                                                         *)
(* One invocation of handler() is a frame: its position (pc) and its       *)
(* local variables.  The repository host keeps the comments of the pull    *)
(* requests; they are the only state shared between invocations.  Every    *)
(* awaited external call is one action whose outcome (Ok or Err, and the   *)
(* returned value) is drawn from a small set.  Rust Strings that are       *)
(* compared by prefix or suffix are TLA+ strings (one character per        *)
(* element); the text of a fetched file is a sequence of codepoints.       *)
(*                                                                         *)
(* Spec and RunSpec run the handler one invocation after the other,        *)
(* ConcurrentSpec runs invocations at the same time, TruncateSpec and      *)
(* SelectionSpec apply truncate and the file selection on their own.       *)
(***************************************************************************)
EXTENDS Integers, Sequences, FiniteSets, TLC

(***************************************************************************)
(* Bounds of the model.                                                    *)
(***************************************************************************)
\* handler invocations in one behaviour of the multi-run specifications
MaxRuns == 2
\* length of the file list list_files may return in the single-run
\* specification, and of the lists the selection is applied to
MaxFiles == 2
\* handler frames that may exist at the same time
NumFrames == 2

Runs == 1..NumFrames

(***************************************************************************)
(* Options: None is <<>>, Some(x) is <<x>>.                                *)
(***************************************************************************)
None == <<>>

Some(x) == <<x>>

unwrap_or(opt, default) == IF opt = None THEN default ELSE opt[1]

(***************************************************************************)
(* str::starts_with, str::ends_with, str::to_lowercase on ASCII strings.   *)
(***************************************************************************)
starts_with(s, p) == Len(p) <= Len(s) /\ SubSeq(s, 1, Len(p)) = p

ends_with(s, p) ==
    Len(p) <= Len(s) /\ SubSeq(s, Len(s) - Len(p) + 1, Len(s)) = p

UpperCase == "ABCDEFGHIJKLMNOPQRSTUVWXYZ"

LowerCase == "abcdefghijklmnopqrstuvwxyz"

\* the lower-case letter of each upper-case letter
lowercase_of ==
    [c \in {SubSeq(UpperCase, i, i) : i \in 1..Len(UpperCase)} |->
        LET i == CHOOSE j \in 1..Len(UpperCase) : SubSeq(UpperCase, j, j) = c
        IN  SubSeq(LowerCase, i, i)]

char_to_lowercase(c) == IF c \in DOMAIN lowercase_of THEN lowercase_of[c] ELSE c

RECURSIVE to_lowercase(_)
to_lowercase(s) ==
    IF Len(s) = 0 THEN ""
    ELSE IF Len(s) = 1 THEN char_to_lowercase(s)
    ELSE LET half == Len(s) \div 2
         IN  to_lowercase(SubSeq(s, 1, half))
                 \o to_lowercase(SubSeq(s, half + 1, Len(s)))

(***************************************************************************)
(* The string literals of the handler.                                     *)
(***************************************************************************)
\* line 75: the prefix of an issue comment the handler takes for its own
AgentPrefix == "Hello, I am a code reviewer"

\* line 104: the prefix by which a Synchronize run finds the comment to update
UpdateMarker == "Hello, I am a [code review agent]"

\* line 117: the body of the comment a new review creates
Greeting == "Hello, I am a [code reviewer](https://github.com/flows-network/github-pr-review/).\n\nIt could take a few minutes for me to analyze this PR. Relax, grab some protein shake and complete 10-15 pushups. Thanks!"

\* line 134: the start of the assembled document
Preamble == "Hello, I am a [code reviewer](https://github.com/flows-network/github-pr-review/). Here are my reviews of changed source code files in this PR.\n\n------\n\n"

\* line 190: the section of a file whose model request failed
NASection == "#### Potential issues\n\nN/A\n\n"

\* line 179: the instruction in front of the file text
Instruction == "Review the following source code and report any bugs or issues in 50 to 100 words but please be concise.\n\n"

\* lines 23-24, 35-36: the defaults of github_owner and github_repo
owner == "staru09"

repo == "LFX_test"


\* line 91: the system prompt, parameterised by the title
system_prompt(title) ==
    "You are an experienced software developer. You will review a source code file and its patch related to the subject of \""
        \o title
        \o "\". Please be concise and accurate. Read through all the files mentioned in the PR and generate your responses."

\* line 90: format!("PR#{}", pull_number)
chat_id_of(pull_number) == "PR#" \o ToString(pull_number)

(***************************************************************************)
(* The context size (lines 40 and 45).  A u32 is kept as two 16-bit limbs  *)
(* so that its full width is represented; the configured value, a decimal  *)
(* string of any size, has a third limb for what lies above 2^32 - 1.      *)
(* parse::<u32>() fails when that limb is not zero and unwrap_or(0) makes  *)
(* the size 0.  2 * llm_ctx_size is a u32 product: a build with overflow   *)
(* checks panics when it does not fit, a build without them wraps.         *)
(***************************************************************************)
Limb == 256 * 256

U32(hi, lo) == [hi |-> hi, lo |-> lo]

Configured(top, hi, lo) == [top |-> top, hi |-> hi, lo |-> lo]

parse_u32(c) == IF c.top = 0 THEN Some(U32(c.hi, c.lo)) ELSE None

llm_ctx_size_of(configured) == unwrap_or(parse_u32(configured), U32(0, 0))

\* 2 * u with the carry out of the 32 bits
doubled(u) ==
    LET lo2 == 2 * u.lo
        hi2 == 2 * u.hi + (lo2 \div Limb)
    IN  [carry |-> hi2 \div Limb, hi |-> hi2 % Limb, lo |-> lo2 % Limb]

mul_overflows(llm_ctx_size) == doubled(llm_ctx_size).carry # 0

\* (2 * llm_ctx_size).try_into().unwrap_or(0): u32 to usize never fails
ctx_size_char_of(llm_ctx_size) ==
    U32(doubled(llm_ctx_size).hi, doubled(llm_ctx_size).lo)

\* a usize as a count of chars; counts from 2^31 on are all beyond the
\* length of any text and are represented by the largest one
char_count(u) ==
    IF u.hi < Limb \div 2 THEN u.hi * Limb + u.lo ELSE 2147483647

(***************************************************************************)
(* truncate (lines 210-215).  A str is a sequence of codepoints; its       *)
(* bytes are their UTF-8 encodings, so the byte offset of a char is the    *)
(* sum of the encoded lengths of the chars before it.                      *)
(***************************************************************************)
len_utf8(c) ==
    IF c < 128 THEN 1 ELSE IF c < 2048 THEN 2 ELSE IF c < 65536 THEN 3 ELSE 4

RECURSIVE byte_len(_)
byte_len(s) == IF s = <<>> THEN 0 ELSE len_utf8(Head(s)) + byte_len(Tail(s))

\* s.char_indices(): the (byte offset, char) pairs of s
char_indices(s) ==
    [i \in 1..Len(s) |-> <<byte_len(SubSeq(s, 1, i - 1)), s[i]>>]

\* Iterator::nth(n): the element after n others, if there is one
nth(it, n) == IF n < Len(it) THEN Some(it[n + 1]) ELSE None

\* &s[..idx]: the chars that lie wholly in the first idx bytes
slice_to(s, idx) ==
    LET k == CHOOSE j \in 0..Len(s) :
                 /\ byte_len(SubSeq(s, 1, j)) <= idx
                 /\ \A m \in 0..Len(s) :
                        byte_len(SubSeq(s, 1, m)) <= idx => m <= j
    IN  SubSeq(s, 1, k)

\* a variant that takes max_chars for a count of bytes
truncate_bytes(s, max_chars) ==
    IF max_chars >= byte_len(s) THEN s ELSE slice_to(s, max_chars)

truncate(s, max_chars) ==
    LET found == nth(char_indices(s), max_chars)
    IN  IF found = None THEN s ELSE slice_to(s, found[1][1])

(***************************************************************************)
(* The files of a pull request (lines 138-151).                            *)
(***************************************************************************)
HashLen == 40

SkippedSuffixes == {".md", ".js", ".css", ".html", ".htm"}

has_skipped_suffix(filename) ==
    \E suffix \in SkippedSuffixes : ends_with(filename, suffix)

\* the file passes both `continue` guards of the loop
is_selected(f) ==
    /\ ~has_skipped_suffix(f.filename)
    /\ ~(Len(f.contents_url) < HashLen)

hash_of(contents_url) ==
    SubSeq(contents_url, Len(contents_url) - HashLen + 1, Len(contents_url))

raw_url_of(f) ==
    "https://raw.githubusercontent.com/" \o owner \o "/" \o repo \o "/"
        \o hash_of(f.contents_url) \o "/" \o f.filename

\* lines 164-168: the heading of a file's section
heading_of(f) == "## [" \o f.filename \o "](" \o f.blob_url \o ")\n\n"

\* lines 184-186: the section of a file the model answered
ok_section(choice) == "#### Potential issues\n\n" \o choice \o "\n\n"

\* a variant that never takes the first file of a list
RECURSIVE next_selected_after_first(_, _)
next_selected_after_first(files, i) ==
    IF i > Len(files) THEN i
    ELSE IF i > 1 /\ is_selected(files[i]) THEN i
    ELSE next_selected_after_first(files, i + 1)

\* the first index at or after i of a file the loop does not skip
RECURSIVE next_selected(_, _)
next_selected(files, i) ==
    IF i > Len(files) THEN i
    ELSE IF is_selected(files[i]) THEN i
    ELSE next_selected(files, i + 1)

\* the files the loop does not skip, from index i on, in the order it
\* comes to them
RECURSIVE selected_from(_, _)
selected_from(files, i) ==
    LET j == next_selected(files, i)
    IN  IF j > Len(files) THEN <<>>
        ELSE <<files[j]>> \o selected_from(files, j + 1)

selected(files) == selected_from(files, 1)

(***************************************************************************)
(* Inputs: files, file lists, outcomes of the external calls.              *)
(***************************************************************************)
Sha == "0123456789abcdef0123456789abcdef01234567"

ChangedFile(name, contents_url) ==
    [filename |-> name, contents_url |-> contents_url,
     blob_url |-> "https://github.com/staru09/LFX_test/blob/" \o Sha \o "/" \o name]

ContentsUrl(name) ==
    "https://api.github.com/repos/staru09/LFX_test/contents/" \o name
        \o "?ref=" \o Sha

F_a == ChangedFile("a.py", ContentsUrl("a.py"))

F_b == ChangedFile("b.rs", ContentsUrl("b.rs"))

F_md == ChangedFile("readme.md", ContentsUrl("readme.md"))

F_short == ChangedFile("c.go", "c.go?ref=0123456")

Files == {F_a, F_b, F_md, F_short}

RECURSIVE SeqsUpTo(_, _)
SeqsUpTo(S, n) ==
    IF n = 0 THEN {<<>>}
    ELSE LET shorter == SeqsUpTo(S, n - 1)
         IN  shorter \cup {Append(l, x) : l \in shorter, x \in S}

\* the file lists of the single-run specification
FileLists == SeqsUpTo(Files, MaxFiles)

\* the file lists of the multi-run specification
SessionFileLists == {<<>>, <<F_a>>, <<F_md>>}

\* the text of a fetched file: e-acute, the euro sign, x (2, 3 and 1 bytes)
FileTexts == {<<233, 8364, 120>>}

\* the body of an HTTP error response: "404"
NotFoundText == <<52, 48, 52>>

\* reqwest::get and Response::text: a network error, or a response with a
\* status whose body decodes as text or does not
GetOutcomes ==
    {[get |-> "Err", status |-> 0, text |-> None]}
        \cup {[get |-> "Ok", status |-> 200, text |-> Some(t)] : t \in FileTexts}
        \cup {[get |-> "Ok", status |-> 200, text |-> None],
              [get |-> "Ok", status |-> 404, text |-> Some(NotFoundText)]}

\* the answers of the model backend
Choices == {"Looks fine."}

\* the configured llm_ctx_size values: 1, 126000 (the default), 2^31
CtxSizes ==
    {Configured(0, 0, 1), Configured(0, 1, 60464), Configured(0, 32768, 0)}

SessionCtxSizes == {Configured(0, 1, 60464)}

\* the configured trigger phrases
TriggerPhrases == {"flows review", "", "hello"}

PullNumbers == {5, 42}

(***************************************************************************)
(* The inbound event (line 30): Err when the payload does not decode,      *)
(* else a pull-request event, an issue-comment event or another kind.      *)
(***************************************************************************)
WebhookEvent(decoded, kind, action, title, number, user, body) ==
    [decoded |-> decoded, kind |-> kind, action |-> action, title |-> title,
     number |-> number, user |-> user, body |-> body]

UndecodableEvent == WebhookEvent(FALSE, "", "", None, 0, None, None)

PullRequestActions == {"Opened", "Synchronize", "Closed"}

IssueCommentActions == {"Created", "Edited", "Deleted"}

\* the bodies of inbound issue comments
EventBodies ==
    {"flows review please", "FLOWS REVIEW", "LGTM", Greeting, Preamble,
     "Hello, I am a code reviewer bot"}

PullRequestEvents ==
    {WebhookEvent(TRUE, "PullRequest", a, t, n, u, None) :
        a \in PullRequestActions, t \in {None, Some("Fix bug")},
        n \in PullNumbers, u \in {None, Some("alice")}}

IssueCommentEvents ==
    {WebhookEvent(TRUE, "IssueComment", a, Some("Fix bug"), n, Some("alice"), b) :
        a \in IssueCommentActions, n \in PullNumbers,
        b \in {None} \cup {Some(x) : x \in EventBodies}}

OtherEvents == {WebhookEvent(TRUE, "Push", "", None, 0, None, None)}

Events ==
    {UndecodableEvent} \cup PullRequestEvents \cup IssueCommentEvents
        \cup OtherEvents

(***************************************************************************)
(* Lines 48-88: what the handler does with a decoded event.  outcome is    *)
(* "return" (an early return), "panic" (p.user.unwrap() on None) or        *)
(* "review" (the match yields title and pull_number).                      *)
(***************************************************************************)
Decision(outcome, new_commit, title, pull_number) ==
    [outcome |-> outcome, new_commit |-> new_commit, title |-> title,
     pull_number |-> pull_number]

Return == Decision("return", FALSE, "", 0)

\* a variant that takes every action but Synchronize for Opened
classify_pull_request_any_action(e) ==
    IF e.user = None
    THEN Decision("panic", e.action = "Synchronize", unwrap_or(e.title, ""),
                  e.number)
    ELSE Decision("review", e.action = "Synchronize", unwrap_or(e.title, ""),
                  e.number)

classify_pull_request(e) ==
    IF e.action \notin {"Opened", "Synchronize"} THEN Return
    ELSE IF e.user = None
    THEN Decision("panic", e.action = "Synchronize", unwrap_or(e.title, ""),
                  e.number)
    ELSE Decision("review", e.action = "Synchronize", unwrap_or(e.title, ""),
                  e.number)

classify_issue_comment(e, trigger_phrase) ==
    LET body == unwrap_or(e.body, "")
    IN  IF e.action = "Deleted" THEN Return
        ELSE IF starts_with(body, AgentPrefix) THEN Return
        ELSE IF ~starts_with(to_lowercase(body), to_lowercase(trigger_phrase))
        THEN Return
        ELSE Decision("review", FALSE, e.title[1], e.number)

classify(e, trigger_phrase) ==
    IF e.kind = "PullRequest" THEN classify_pull_request(e)
    ELSE IF e.kind = "IssueComment" THEN classify_issue_comment(e, trigger_phrase)
    ELSE Return

(***************************************************************************)
(* The repository host: the comments, each with its id, its pull request   *)
(* and its body.                                                           *)
(***************************************************************************)
Comment(id, pr, body) == [id |-> id, pr |-> pr, body |-> body]

LegacyBody == UpdateMarker \o "(https://github.com/flows-network/github-pr-review/). Here are my reviews."

InitialComments ==
    {<<>>,
     <<Comment(1, 5, LegacyBody)>>,
     <<Comment(1, 5, "LGTM"), Comment(2, 5, LegacyBody),
       Comment(3, 5, LegacyBody \o " Again.")>>}

\* list_comments(pull_number): the comments of the pull request, in order
comments_of(all, pull_number) ==
    SelectSeq(all, LAMBDA c : c.pr = pull_number)

\* a variant that takes every comment starting with "Hello, I am a" for its own
RECURSIVE first_greeting(_)
first_greeting(items) ==
    IF items = <<>> THEN 0
    ELSE IF starts_with(Head(items).body, "Hello, I am a") THEN Head(items).id
    ELSE first_greeting(Tail(items))

\* lines 103-108: the id of the first comment whose body starts with the
\* marker, 0 when there is none
RECURSIVE first_tracked(_)
first_tracked(items) ==
    IF items = <<>> THEN 0
    ELSE IF starts_with(Head(items).body, UpdateMarker) THEN Head(items).id
    ELSE first_tracked(Tail(items))

\* create_comment: the host appends the comment under a fresh id
fresh_id(all) == Len(all) + 1

\* update_comment(comment_id, body): the host overwrites the body
with_body(all, comment_id, body) ==
    [i \in 1..Len(all) |->
        IF all[i].id = comment_id THEN [all[i] EXCEPT !.body = body]
        ELSE all[i]]

(***************************************************************************)
(* State.                                                                  *)
(***************************************************************************)
VARIABLES
    comments,   \* the comments on the repository host
    frame,      \* frame[r]: pc and local variables of handler invocation r
    calls,      \* calls[r]: the external calls invocation r has made, in order
    before,     \* before[r]: the comments when invocation r started
    inbound,    \* inbound[r]: the event and trigger phrase of invocation r,
                \* from its entry until it has found or created its comment
    created,    \* ids of the comments create_comment has created
    published,  \* ids of created comments whose run also published into them
    new_reviews, \* new_reviews[n]: invocations for pull request n that took
                \* the new-review path (PR Opened, qualifying issue comment)
    nruns,      \* handler invocations started so far
    argument,   \* the argument of a function that is applied on its own
    returns     \* what it returned, once it has been applied

vars ==
    <<comments, frame, calls, before, inbound, created, published,
      new_reviews, nruns, argument, returns>>

\* what the handler leaves alone
applied == <<argument, returns>>

IdleFrame ==
    [pc |-> "idle", llm_ctx_size |-> U32(0, 0), ctx_size_char |-> U32(0, 0),
     new_commit |-> FALSE,
     title |-> "", pull_number |-> 0, comment_id |-> 0, resp |-> "",
     files |-> <<>>, idx |-> 0, t_file_as_text |-> <<>>, status |-> 0,
     panic_site |-> "none"]

\* an external call: its arguments and its result, <<"Err">> or <<"Ok", value>>
Call(op, args, result) == [op |-> op, args |-> args, result |-> result]

Err == <<"Err">>

Ok(value) == <<"Ok", value>>

Init ==
    /\ comments \in InitialComments
    /\ frame = [r \in Runs |-> IdleFrame]
    /\ calls = [r \in Runs |-> <<>>]
    /\ before = [r \in Runs |-> <<>>]
    /\ inbound = [r \in Runs |-> None]
    /\ created = {}
    /\ published = {}
    /\ new_reviews = [n \in PullNumbers |-> 0]
    /\ nruns = 0
    /\ argument = None
    /\ returns = None

(***************************************************************************)
(* Lines 30-98: the handler from its entry to its first external call.     *)
(***************************************************************************)
entry_frame(event, trigger_phrase, configured, overflow_checks) ==
    LET size == llm_ctx_size_of(configured)
        entered == [IdleFrame EXCEPT !.llm_ctx_size = size]
        f == [entered EXCEPT !.ctx_size_char = ctx_size_char_of(size)]
        d == classify(event, trigger_phrase)
        g == [f EXCEPT !.new_commit = d.new_commit, !.title = d.title,
                       !.pull_number = d.pull_number]
    IN  IF mul_overflows(size) /\ overflow_checks
        THEN [entered EXCEPT !.pc = "panicked", !.panic_site = "2 * llm_ctx_size"]
        ELSE IF ~event.decoded
        THEN [f EXCEPT !.pc = "panicked", !.panic_site = "event.unwrap()"]
        ELSE IF d.outcome = "return"
        THEN [f EXCEPT !.pc = "returned"]
        ELSE IF d.outcome = "panic"
        THEN [f EXCEPT !.pc = "panicked", !.panic_site = "p.user.unwrap()"]
        ELSE [g EXCEPT !.pc = IF d.new_commit THEN "list_comments"
                              ELSE "create_comment"]

handler_entry(r, sequential, max_runs, ctx_sizes, events, trigger_phrases) ==
    /\ frame[r].pc = "idle"
    /\ nruns < max_runs
    /\ \A q \in Runs : q < r => frame[q].pc # "idle"
    /\ sequential => \A q \in Runs \ {r} : frame[q].pc = "idle"
    /\ \E event \in events, trigger_phrase \in trigger_phrases,
          configured \in ctx_sizes, overflow_checks \in BOOLEAN :
        LET f == entry_frame(event, trigger_phrase, configured, overflow_checks)
        IN  /\ frame' = [frame EXCEPT ![r] = f]
            /\ inbound' = [inbound EXCEPT ![r] =
                   Some([event |-> event, trigger_phrase |-> trigger_phrase])]
            /\ new_reviews' =
                   IF f.pc = "create_comment"
                   THEN [new_reviews EXCEPT ![f.pull_number] = @ + 1]
                   ELSE new_reviews
    /\ nruns' = nruns + 1
    /\ before' = [before EXCEPT ![r] = comments]
    /\ UNCHANGED <<comments, calls, created, published>>
    /\ UNCHANGED applied

(***************************************************************************)
(* Lines 99-114 and 128-130: a Synchronize run looks for its comment.      *)
(***************************************************************************)
\* a variant that creates a comment when it finds none
after_list_comments_creating(f, result) ==
    IF result = Err THEN [f EXCEPT !.pc = "returned"]
    ELSE LET id == first_tracked(result[2])
         IN  IF id = 0 THEN [f EXCEPT !.pc = "create_comment"]
             ELSE [f EXCEPT !.comment_id = id, !.pc = "list_files"]

after_list_comments(f, result) ==
    IF result = Err THEN [f EXCEPT !.pc = "returned"]
    ELSE LET id == first_tracked(result[2])
         IN  IF id = 0 THEN [f EXCEPT !.pc = "returned"]
             ELSE [f EXCEPT !.comment_id = id, !.pc = "list_files"]

list_comments(r) ==
    /\ frame[r].pc = "list_comments"
    /\ \E result \in {Err, Ok(comments_of(comments, frame[r].pull_number))} :
        /\ frame' = [frame EXCEPT ![r] = after_list_comments(@, result)]
        /\ calls' = [calls EXCEPT ![r] =
               Append(@, Call("list_comments", <<frame[r].pull_number>>, result))]
    /\ UNCHANGED <<comments, before, inbound, created, published, new_reviews,
                   nruns>>
    /\ UNCHANGED applied

(***************************************************************************)
(* Lines 115-130: a new review creates its comment.                        *)
(***************************************************************************)
\* a variant that goes on after a failed create_comment
after_create_comment_continuing(f, result) ==
    IF result = Err THEN [f EXCEPT !.pc = "list_files"]
    ELSE [f EXCEPT !.comment_id = result[2], !.pc = "list_files"]

after_create_comment(f, result) ==
    IF result = Err THEN [f EXCEPT !.pc = "returned"]
    ELSE IF result[2] = 0 THEN [f EXCEPT !.pc = "returned"]
    ELSE [f EXCEPT !.comment_id = result[2], !.pc = "list_files"]

create_comment(r) ==
    /\ frame[r].pc = "create_comment"
    /\ \E result \in {Err, Ok(fresh_id(comments))} :
        /\ frame' = [frame EXCEPT ![r] = after_create_comment(@, result)]
        /\ calls' = [calls EXCEPT ![r] =
               Append(@, Call("create_comment",
                              <<frame[r].pull_number, Greeting>>, result))]
        /\ IF result = Err
           THEN UNCHANGED <<comments, created>>
           ELSE /\ comments' = Append(comments,
                       Comment(result[2], frame[r].pull_number, Greeting))
                /\ created' = created \cup {result[2]}
    /\ UNCHANGED <<before, inbound, published, new_reviews, nruns>>
    /\ UNCHANGED applied

(***************************************************************************)
(* Lines 132-147 and 196-199: the file list, and the loop up to the first  *)
(* file it does not skip.                                                  *)
(***************************************************************************)
\* a variant that leaves the loop after its first file
loop_from_once(f, i) ==
    LET j == next_selected(f.files, i)
    IN  IF i > 1 THEN [f EXCEPT !.idx = i, !.pc = "update_comment"]
        ELSE [f EXCEPT !.idx = j,
                       !.pc = IF j > Len(f.files) THEN "update_comment" ELSE "get"]

loop_from(f, i) ==
    LET j == next_selected(f.files, i)
    IN  [f EXCEPT !.idx = j,
                  !.pc = IF j > Len(f.files) THEN "update_comment" ELSE "get"]

\* a variant that returns when list_files fails
after_list_files_aborting(f, result) ==
    IF result = Err THEN [f EXCEPT !.pc = "returned"]
    ELSE loop_from([f EXCEPT !.resp = Preamble, !.files = result[2]], 1)

\* a variant that publishes as soon as it has the list
after_list_files_publishing(f, result) ==
    [f EXCEPT !.resp = Preamble,
              !.files = IF result = Err THEN <<>> ELSE result[2],
              !.pc = "update_comment"]

after_list_files(f, result) ==
    LET g == [f EXCEPT !.resp = Preamble]
    IN  IF result = Err THEN [g EXCEPT !.pc = "update_comment"]
        ELSE loop_from([g EXCEPT !.files = result[2]], 1)

list_files(r, file_lists) ==
    /\ frame[r].pc = "list_files"
    /\ \E result \in {Err} \cup {Ok(l) : l \in file_lists} :
        /\ frame' = [frame EXCEPT ![r] = after_list_files(@, result)]
        /\ calls' = [calls EXCEPT ![r] =
               Append(@, Call("list_files", <<frame[r].pull_number>>, result))]
    /\ inbound' = [inbound EXCEPT ![r] = None]
    /\ UNCHANGED <<comments, before, created, published, new_reviews, nruns>>
    /\ UNCHANGED applied

(***************************************************************************)
(* Lines 148-168: the raw content of one file is fetched and decoded.      *)
(***************************************************************************)
after_get(f, outcome) ==
    LET file == f.files[f.idx]
    IN  IF outcome.get = "Err" THEN loop_from(f, f.idx + 1)
        ELSE IF outcome.text = None
        THEN [f EXCEPT !.pc = "panicked",
                       !.panic_site = "res.text().await.unwrap()",
                       !.status = outcome.status]
        ELSE [f EXCEPT !.t_file_as_text = truncate(outcome.text[1],
                                                    char_count(f.ctx_size_char)),
                       !.resp = @ \o heading_of(file),
                       !.status = outcome.status,
                       !.pc = "chat_completion"]

get_calls(f, outcome) ==
    LET url == raw_url_of(f.files[f.idx])
    IN  IF outcome.get = "Err" THEN <<Call("get", <<url, f.idx>>, Err)>>
        ELSE <<Call("get", <<url, f.idx>>, Ok(outcome.status)),
               Call("text", <<url, f.idx>>,
                    IF outcome.text = None THEN Err ELSE Ok(outcome.text[1]))>>

get(r) ==
    /\ frame[r].pc = "get"
    /\ \E outcome \in GetOutcomes :
        /\ frame' = [frame EXCEPT ![r] = after_get(@, outcome)]
        /\ calls' = [calls EXCEPT ![r] = @ \o get_calls(frame[r], outcome)]
    /\ UNCHANGED <<comments, before, inbound, created, published, new_reviews,
                   nruns>>
    /\ UNCHANGED applied

(***************************************************************************)
(* Lines 170-193: the model reviews the file.                              *)
(***************************************************************************)
chat_options(f) ==
    [model |-> "yicoder9b", token_limit |-> f.llm_ctx_size, restart |-> TRUE,
     system_prompt |-> system_prompt(f.title)]

question_of(f) == [instruction |-> Instruction, text |-> f.t_file_as_text]

\* a variant that leaves the loop when the model fails
after_chat_completion_breaking(f, result) ==
    IF result = Err
    THEN [f EXCEPT !.resp = @ \o NASection, !.pc = "update_comment"]
    ELSE loop_from([f EXCEPT !.resp = @ \o ok_section(result[2])], f.idx + 1)

after_chat_completion(f, result) ==
    loop_from([f EXCEPT !.resp = @ \o (IF result = Err THEN NASection
                                       ELSE ok_section(result[2]))],
              f.idx + 1)

chat_completion(r) ==
    /\ frame[r].pc = "chat_completion"
    /\ \E result \in {Err} \cup {Ok(c) : c \in Choices} :
        /\ frame' = [frame EXCEPT ![r] = after_chat_completion(@, result)]
        /\ calls' = [calls EXCEPT ![r] =
               Append(@, Call("chat_completion",
                              <<chat_id_of(frame[r].pull_number),
                                question_of(frame[r]), chat_options(frame[r]),
                                frame[r].idx>>,
                              result))]
    /\ UNCHANGED <<comments, before, inbound, created, published, new_reviews,
                   nruns>>
    /\ UNCHANGED applied

(***************************************************************************)
(* Lines 201-208: the document is published and the handler returns.       *)
(***************************************************************************)
\* a variant that tries again when update_comment fails
update_comment_retrying(r) ==
    /\ frame[r].pc = "update_comment"
    /\ \E result \in {Err, Ok(frame[r].comment_id)} :
        /\ frame' = [frame EXCEPT ![r].pc = IF result = Err THEN "update_comment"
                                             ELSE "returned"]
        /\ calls' = [calls EXCEPT ![r] =
               Append(@, Call("update_comment",
                              <<frame[r].comment_id, frame[r].resp>>, result))]
        /\ IF result = Err
           THEN UNCHANGED <<comments, published>>
           ELSE /\ comments' = with_body(comments, frame[r].comment_id,
                                         frame[r].resp)
                /\ published' = IF frame[r].new_commit THEN published
                                ELSE published \cup {frame[r].comment_id}
    /\ UNCHANGED <<before, inbound, created, new_reviews, nruns>>
    /\ UNCHANGED applied

update_comment(r) ==
    /\ frame[r].pc = "update_comment"
    /\ \E result \in {Err, Ok(frame[r].comment_id)} :
        /\ frame' = [frame EXCEPT ![r].pc = "returned"]
        /\ calls' = [calls EXCEPT ![r] =
               Append(@, Call("update_comment",
                              <<frame[r].comment_id, frame[r].resp>>, result))]
        /\ IF result = Err
           THEN UNCHANGED <<comments, published>>
           ELSE /\ comments' = with_body(comments, frame[r].comment_id,
                                         frame[r].resp)
                /\ published' = IF frame[r].new_commit THEN published
                                ELSE published \cup {frame[r].comment_id}
    /\ UNCHANGED <<before, inbound, created, new_reviews, nruns>>
    /\ UNCHANGED applied

(***************************************************************************)
(* The invocation is over: its locals are dropped.                         *)
(***************************************************************************)
handler_exit(r) ==
    /\ frame[r].pc \in {"returned", "panicked"}
    /\ frame' = [frame EXCEPT ![r] = IdleFrame]
    /\ calls' = [calls EXCEPT ![r] = <<>>]
    /\ before' = [before EXCEPT ![r] = <<>>]
    /\ inbound' = [inbound EXCEPT ![r] = None]
    /\ UNCHANGED <<comments, created, published, new_reviews, nruns>>
    /\ UNCHANGED applied

(***************************************************************************)
(* Specifications.  Spec: up to MaxRuns invocations, one after the other.  *)
(* RunSpec: one invocation, with every file list up to MaxFiles and every  *)
(* configured context size.                                                *)
(***************************************************************************)
step(r, file_lists) ==
    \/ list_comments(r)
    \/ create_comment(r)
    \/ list_files(r, file_lists)
    \/ get(r)
    \/ chat_completion(r)
    \/ update_comment(r)
    \/ handler_exit(r)

Next ==
    \E r \in Runs :
        \/ handler_entry(r, TRUE, MaxRuns, SessionCtxSizes, Events, TriggerPhrases)
        \/ step(r, SessionFileLists)

Spec == Init /\ [][Next]_vars

RunNext ==
    \E r \in Runs :
        \/ handler_entry(r, TRUE, 1, CtxSizes, Events, TriggerPhrases)
        \/ step(r, FileLists)

RunSpec == Init /\ [][RunNext]_vars

(***************************************************************************)
(* ConcurrentSpec: up to MaxRuns invocations for one pull request that run *)
(* at the same time, their steps interleaved in every way.  The handler    *)
(* awaits each call, so an invocation is between two calls whenever        *)
(* another one takes a step.  Every GET answers 200 with a body that       *)
(* decodes; every other call succeeds or fails.                            *)
(***************************************************************************)
\* PR #5 is opened, gets a new commit
ConcurrentEvents ==
    {WebhookEvent(TRUE, "PullRequest", a, Some("Fix bug"), 5, Some("alice"), None) :
        a \in {"Opened", "Synchronize"}}

\* the files of the pull request
ConcurrentFileLists == {<<F_a>>}

\* the pull request holds no comment, or one with the marker
ConcurrentInit ==
    /\ Init
    /\ comments \in {<<>>, <<Comment(1, 5, LegacyBody)>>}

ConcurrentNext ==
    \E r \in Runs :
        \/ handler_entry(r, FALSE, MaxRuns, SessionCtxSizes, ConcurrentEvents,
                         {"flows review"})
        \/ list_comments(r)
        \/ create_comment(r)
        \/ list_files(r, ConcurrentFileLists)
        \/ get(r) /\ frame'[r].pc = "chat_completion" /\ frame'[r].status = 200
        \/ chat_completion(r)
        \/ update_comment(r)
        \/ handler_exit(r)

ConcurrentSpec == ConcurrentInit /\ [][ConcurrentNext]_vars

(***************************************************************************)
(* Functions applied on their own.  No handler runs: the variables of the  *)
(* handler stay as they are when nothing has been invoked.                 *)
(***************************************************************************)
handler_vars ==
    <<comments, frame, calls, before, inbound, created, published,
      new_reviews, nruns>>

NoHandler ==
    /\ comments = <<>>
    /\ frame = [r \in Runs |-> IdleFrame]
    /\ calls = [r \in Runs |-> <<>>]
    /\ before = [r \in Runs |-> <<>>]
    /\ inbound = [r \in Runs |-> None]
    /\ created = {}
    /\ published = {}
    /\ new_reviews = [n \in PullNumbers |-> 0]
    /\ nruns = 0

(***************************************************************************)
(* truncate (lines 210-215) applied to every text of up to MaxLen chars    *)
(* of 1, 2, 3 and 4 bytes, with every budget up to one more than MaxLen.   *)
(***************************************************************************)
MaxLen == 3

\* x, e-acute, the euro sign, a grinning face
Codepoints == {120, 233, 8364, 128512}

Texts == SeqsUpTo(Codepoints, MaxLen)

Budgets == 0..(MaxLen + 1)

TruncateInit ==
    /\ NoHandler
    /\ argument \in {Some([s |-> s, max_chars |-> n]) : s \in Texts, n \in Budgets}
    /\ returns = None

truncate_applied ==
    /\ argument # None
    /\ returns = None
    /\ returns' = Some(truncate(argument[1].s, argument[1].max_chars))
    /\ UNCHANGED <<argument, handler_vars>>

TruncateNext == truncate_applied

TruncateSpec == TruncateInit /\ [][TruncateNext]_vars

(***************************************************************************)
(* The selection of the loop (lines 138-147) applied to a file list, then  *)
(* once more to the same list and to the files it selected.                *)
(***************************************************************************)
\* a contents_url of exactly HashLen chars, and one of one char fewer
F_bare == ChangedFile("d.c", Sha)

F_cut == ChangedFile("e.c", SubSeq(Sha, 2, HashLen))

\* the files of Files, one for each skipped suffix, names that hold a
\* skipped suffix without ending in it, and the two short contents_urls
SelectionFiles ==
    Files \cup {ChangedFile(n, ContentsUrl(n)) :
                  n \in {"app.js", "style.css", "index.html", "page.htm",
                         "notes.md.txt", "md"}}
          \cup {F_bare, F_cut}

SelectionLists == SeqsUpTo(SelectionFiles, MaxFiles)

SelectionInit ==
    /\ NoHandler
    /\ argument \in {Some(l) : l \in SelectionLists}
    /\ returns = None

selected_applied ==
    /\ argument # None
    /\ returns = None
    /\ returns' = Some(<<selected(argument[1])>>)
    /\ UNCHANGED <<argument, handler_vars>>

selected_applied_again ==
    /\ returns # None
    /\ Len(returns[1]) = 1
    /\ returns' = Some(<<returns[1][1], selected(argument[1]),
                         selected(returns[1][1])>>)
    /\ UNCHANGED <<argument, handler_vars>>

SelectionNext == selected_applied \/ selected_applied_again

SelectionSpec == SelectionInit /\ [][SelectionNext]_vars

(***************************************************************************)
(* Properties.                                                             *)
(***************************************************************************)
\* the positions in the call log of invocation r of the calls of one kind
ops(r, op) == {i \in DOMAIN calls[r] : calls[r][i].op = op}

\* the prefix common to the comment the agent creates and the document it
\* publishes
AgentMarker == "Hello, I am a [code reviewer]"

\* the comments of pull request n, among all, that create_comment created
agent_comments(all, n) ==
    {i \in DOMAIN all : all[i].pr = n /\ all[i].id \in created}

\* the ids of the comments of pull request n, among all, that a run created
\* and published its review into
reviewed(all, n) ==
    {all[i].id : i \in {j \in DOMAIN all : all[j].pr = n /\ all[j].id \in published}}

\* C1: when a Synchronize run for a pull request that holds a comment an
\* earlier run created and published into has listed the comments and
\* returned, it has called update_comment on such a comment and has not
\* called create_comment.
C1_SynchronizeUpdatesReviewedComment ==
    \A r \in Runs :
        (/\ frame[r].new_commit
         /\ frame[r].pc = "returned"
         /\ \E i \in ops(r, "list_comments") : calls[r][i].result # Err
         /\ reviewed(before[r], frame[r].pull_number) # {})
        => /\ \E i \in ops(r, "update_comment") :
                  calls[r][i].args[1] \in reviewed(before[r], frame[r].pull_number)
           /\ ops(r, "create_comment") = {}

\* C2 as claimed: every pull request holds at most one comment of the agent.
C2_AtMostOneAgentComment ==
    \A n \in PullNumbers : Cardinality(agent_comments(comments, n)) <= 1

\* C2 as amended: a pull request holds at most as many comments of the
\* agent as invocations took the new-review path for it (PR Opened or a
\* qualifying issue comment), and the body of each starts with the marker.
C2_OneAgentCommentPerNewReview ==
    \A n \in PullNumbers :
        /\ Cardinality(agent_comments(comments, n)) <= new_reviews[n]
        /\ \A i \in agent_comments(comments, n) :
               starts_with(comments[i].body, AgentMarker)

\* two new reviews of one pull request have left two comments of the agent
C2_Witness ==
    \E n \in PullNumbers :
        /\ Cardinality(agent_comments(comments, n)) = 2
        /\ new_reviews[n] = 2

\* the text the agent posts: the comment it creates, the review it publishes
own_text(body) == starts_with(body, Greeting) \/ starts_with(body, Preamble)

\* C3: an issue comment whose body starts with the text the agent posts is
\* ignored whatever the trigger phrase: the invocation makes no call.
C3_OwnCommentIgnored ==
    \A r \in Runs :
        (/\ inbound[r] # None
         /\ inbound[r][1].event.kind = "IssueComment"
         /\ own_text(unwrap_or(inbound[r][1].event.body, "")))
        => calls[r] = <<>>

\* the events the handler acts on: PR Opened, PR Synchronize, and an issue
\* comment that is not deleted, whose body starts with the trigger phrase
\* (compared in lower case) and not with the agent prefix
acted_on(e, trigger_phrase) ==
    /\ e.decoded
    /\ \/ e.kind = "PullRequest" /\ e.action \in {"Opened", "Synchronize"}
       \/ /\ e.kind = "IssueComment"
          /\ e.action # "Deleted"
          /\ starts_with(to_lowercase(unwrap_or(e.body, "")),
                         to_lowercase(trigger_phrase))
          /\ ~starts_with(unwrap_or(e.body, ""), AgentPrefix)

\* C4: an invocation for any other event is over at once and has made no
\* call to the repository host, the content fetcher or the model.
C4_OtherEventsMakeNoCall ==
    \A r \in Runs :
        (/\ inbound[r] # None
         /\ ~acted_on(inbound[r][1].event, inbound[r][1].trigger_phrase))
        => /\ frame[r].pc \in {"returned", "panicked"}
           /\ calls[r] = <<>>

\* an issue comment without the trigger phrase has been ignored
C4_Witness ==
    \E r \in Runs :
        /\ inbound[r] # None
        /\ inbound[r][1].event.kind = "IssueComment"
        /\ inbound[r][1].event.action = "Created"
        /\ inbound[r][1].event.body = Some("LGTM")
        /\ inbound[r][1].trigger_phrase = "flows review"
        /\ frame[r].pc = "returned"
        /\ calls[r] = <<>>

\* C5: a Synchronize run for a pull request none of whose comments starts
\* with the marker makes no call but list_comments and goes no further.
C5_SynchronizeWithoutTrackedCommentIsNoOp ==
    \A r \in Runs :
        (/\ frame[r].new_commit
         /\ \A i \in DOMAIN before[r] :
                before[r][i].pr = frame[r].pull_number
                    => ~starts_with(before[r][i].body, UpdateMarker))
        => /\ frame[r].pc \in {"list_comments", "returned"}
           /\ \A i \in DOMAIN calls[r] : calls[r][i].op = "list_comments"

\* a Synchronize run has listed the comments of a pull request that holds a
\* comment of the agent, found none to update and returned
C5_Witness ==
    \E r \in Runs :
        /\ frame[r].new_commit
        /\ frame[r].pc = "returned"
        /\ Len(calls[r]) = 1
        /\ calls[r][1].result # Err
        /\ agent_comments(before[r], frame[r].pull_number) # {}
        /\ \A i \in DOMAIN before[r] : ~starts_with(before[r][i].body, UpdateMarker)

\* the panics that follow the failure of an external call: the inbound
\* event does not decode (line 47), the fetched body does not (line 161)
ExternalFailurePanics == {"event.unwrap()", "res.text().await.unwrap()"}

\* C6: no failure of an external call leaves the invocation panicked.
C6_NoPanicOnExternalFailure ==
    \A r \in Runs :
        frame[r].pc = "panicked" => frame[r].panic_site \notin ExternalFailurePanics

\* a GET that failed: a network error or an HTTP error status
failed_get(c) == c.op = "get" /\ (c.result = Err \/ c.result[2] >= 400)

\* C7: no model request is made for a file whose GET failed.
C7_FailedGetSkipsFile ==
    \A r \in Runs :
        \A i \in ops(r, "get") :
            failed_get(calls[r][i])
                => \A j \in ops(r, "chat_completion") :
                       calls[r][j].args[4] # calls[r][i].args[2]

\* t occurs in s
contains(s, t) ==
    \E i \in 1..(Len(s) - Len(t) + 1) : SubSeq(s, i, i + Len(t) - 1) = t

\* the loop of f has come to file m
reached(f, m) ==
    \/ m < f.idx
    \/ m = f.idx /\ f.pc \in {"chat_completion", "panicked"}

update_failed(r) ==
    \E i \in ops(r, "update_comment") : calls[r][i].result = Err

\* C9 as claimed: update_comment is called at most once, and when it has
\* failed the comments are those of before the run.
C9_FailedUpdateLeavesCommentsAsBeforeRun ==
    \A r \in Runs :
        /\ Cardinality(ops(r, "update_comment")) <= 1
        /\ update_failed(r) => comments = before[r]

\* C9 as amended: update_comment is called at most once, and when it has
\* failed the comments are those of before the call: those of before the
\* run on a Synchronize run, and those with the greeting comment this run
\* created added on a new review.
C9_FailedUpdateLeavesCommentsAsBeforeCall ==
    \A r \in Runs :
        /\ Cardinality(ops(r, "update_comment")) <= 1
        /\ update_failed(r) =>
               comments =
                   IF frame[r].new_commit THEN before[r]
                   ELSE Append(before[r],
                               Comment(frame[r].comment_id, frame[r].pull_number,
                                       Greeting))

\* a new review whose update_comment failed has left its greeting comment
C9_Witness ==
    \E r \in Runs :
        /\ update_failed(r)
        /\ frame[r].pc = "returned"
        /\ ~frame[r].new_commit
        /\ comments # before[r]
        /\ comments[Len(comments)].body = Greeting

\* C10: when the first call of a run, create_comment or list_comments, has
\* failed, the run has returned, has made no other call and has left the
\* comments as they were.
C10_CommentApiFailureAborts ==
    \A r \in Runs :
        (/\ calls[r] # <<>>
         /\ calls[r][1].op \in {"create_comment", "list_comments"}
         /\ calls[r][1].result = Err)
        => /\ frame[r].pc = "returned"
           /\ Len(calls[r]) = 1
           /\ comments = before[r]

\* a new review whose create_comment failed has returned
C10_Witness ==
    \E r \in Runs :
        /\ frame[r].pc = "returned"
        /\ calls[r] # <<>>
        /\ calls[r][1].op = "create_comment"
        /\ calls[r][1].result = Err

\* C11: an invocation for a PR Opened or PR Synchronize event whose payload
\* has no title or no user does not panic; before its first call it stands
\* at create_comment (Opened) or list_comments (Synchronize), and its title
\* is that of the payload, or "" when there is none.
C11_MissingOptionalFieldsTolerated ==
    \A r \in Runs :
        (/\ inbound[r] # None
         /\ inbound[r][1].event.kind = "PullRequest"
         /\ inbound[r][1].event.action \in {"Opened", "Synchronize"}
         /\ (inbound[r][1].event.title = None \/ inbound[r][1].event.user = None))
        => /\ frame[r].pc # "panicked"
           /\ calls[r] = <<>> =>
                  /\ frame[r].pc = IF inbound[r][1].event.action = "Opened"
                                   THEN "create_comment" ELSE "list_comments"
                  /\ frame[r].title = unwrap_or(inbound[r][1].event.title, "")

\* the decision table: where an invocation for a decoded event stands
\* before its first call
table_path(e, trigger_phrase) ==
    IF e.kind = "PullRequest"
    THEN IF e.action = "Opened" THEN "create_comment"
         ELSE IF e.action = "Synchronize" THEN "list_comments"
         ELSE "returned"
    ELSE IF e.kind = "IssueComment"
    THEN IF \/ e.action = "Deleted"
            \/ starts_with(unwrap_or(e.body, ""), "Hello, I am a code reviewer")
            \/ ~starts_with(to_lowercase(unwrap_or(e.body, "")),
                            to_lowercase(trigger_phrase))
         THEN "returned"
         ELSE "create_comment"
    ELSE "returned"

\* C12: an invocation for a decoded event takes the path of the decision
\* table: before its first call it stands where the table says, its first
\* call is the one the table says, and an invocation for an issue comment
\* never calls list_comments, whatever comments the pull request holds.
C12_PathFollowsDecisionTable ==
    \A r \in Runs :
        (inbound[r] # None /\ inbound[r][1].event.decoded) =>
            LET e == inbound[r][1].event
                path == table_path(e, inbound[r][1].trigger_phrase)
            IN  /\ calls[r] = <<>> => frame[r].pc = path
                /\ calls[r] # <<>> => calls[r][1].op = path
                /\ e.kind = "IssueComment" => ops(r, "list_comments") = {}

\* the files the claim excludes: a name ending in one of the five suffixes,
\* or a contents_url of fewer than 40 characters
excluded(f) ==
    \/ \E suffix \in {".md", ".js", ".css", ".html", ".htm"} :
           ends_with(f.filename, suffix)
    \/ Len(f.contents_url) < 40

\* the raw URL of a file: owner, repository, the last 40 characters of the
\* contents_url, the file name
raw_content_url(f) ==
    "https://raw.githubusercontent.com/staru09/LFX_test/"
        \o SubSeq(f.contents_url, Len(f.contents_url) - 39, Len(f.contents_url))
        \o "/" \o f.filename

\* the positions in the list of invocation r of the files it fetched, sent
\* to the model or has a GET, a body read or a model request for
touched(r) ==
    {calls[r][i].args[2] : i \in ops(r, "get") \cup ops(r, "text")}
        \cup {calls[r][i].args[4] : i \in ops(r, "chat_completion")}

\* C13: of the list list_files returned, no excluded file is fetched, sent
\* to the model or given a section; the GETs are made from the raw URL, in
\* the order of the list; and when the invocation is over every file that
\* is not excluded has been fetched.
C13_ExcludedFilesSkippedOthersFetchedInOrder ==
    \A r \in Runs :
        (\E l \in ops(r, "list_files") : calls[r][l].result # Err) =>
            LET files == frame[r].files
            IN  /\ \A m \in touched(r) : m \in DOMAIN files /\ ~excluded(files[m])
                /\ \A m \in DOMAIN files :
                       excluded(files[m]) => ~contains(frame[r].resp, heading_of(files[m]))
                /\ \A i \in ops(r, "get") :
                       /\ calls[r][i].args[1] = raw_content_url(files[calls[r][i].args[2]])
                       /\ \A j \in ops(r, "get") :
                              i < j => calls[r][i].args[2] < calls[r][j].args[2]
                /\ frame[r].pc \in {"update_comment", "returned", "panicked"} =>
                       \A m \in DOMAIN files :
                           ~excluded(files[m]) =>
                               \E i \in ops(r, "get") : calls[r][i].args[2] = m

\* the GET of the file at position m of the list of invocation r succeeded:
\* a response with a success status whose body was read as text
fetched(r, m) ==
    /\ \E i \in ops(r, "get") :
           /\ calls[r][i].args[2] = m
           /\ calls[r][i].result # Err
           /\ calls[r][i].result[2] < 400
    /\ \E i \in ops(r, "text") :
           calls[r][i].args[2] = m /\ calls[r][i].result # Err

\* what the model said about the file at position m, "N/A" when it failed
findings(r, m) ==
    IF \E i \in ops(r, "chat_completion") :
           calls[r][i].args[4] = m /\ calls[r][i].result # Err
    THEN LET i == CHOOSE i \in ops(r, "chat_completion") :
                      calls[r][i].args[4] = m /\ calls[r][i].result # Err
         IN  calls[r][i].result[2]
    ELSE "N/A"

\* the sections of the files from position m on
RECURSIVE sections_from(_, _)
sections_from(r, m) ==
    IF m > Len(frame[r].files) THEN ""
    ELSE (IF ~excluded(frame[r].files[m]) /\ fetched(r, m)
          THEN "## [" \o frame[r].files[m].filename \o "]("
                   \o frame[r].files[m].blob_url \o ")\n\n"
                   \o "#### Potential issues\n\n" \o findings(r, m) \o "\n\n"
          ELSE "")
         \o sections_from(r, m + 1)

\* C14: the body passed to update_comment is the preamble followed by one
\* section for each file of the list that is not excluded and was fetched
\* successfully, in the order of the list.
C14_DocumentIsPreambleAndSectionsInOrder ==
    \A r \in Runs :
        \A u \in ops(r, "update_comment") :
            calls[r][u].args[2] = Preamble \o sections_from(r, 1)

\* the smaller of two numbers
min(a, b) == IF a <= b THEN a ELSE b

\* C15: truncate(s, n) is a prefix of s of min(n, number of chars of s)
\* chars; it is cut at the byte offset of a char of s, so that it holds
\* whole chars only; truncate(s, number of chars of s) is s and
\* truncate(s, 0) is empty.
C15_TruncateIsPrefixOfMinChars ==
    returns # None =>
        LET s == argument[1].s
            n == argument[1].max_chars
            t == returns[1]
        IN  /\ Len(t) = min(n, Len(s))
            /\ t = SubSeq(s, 1, Len(t))
            /\ byte_len(t) \in {byte_len(SubSeq(s, 1, k)) : k \in 0..Len(s)}
            /\ n < Len(s) => byte_len(t) = char_indices(s)[n + 1][1]
            /\ n = Len(s) => t = s
            /\ n = 0 => t = <<>>

\* a text of chars of 2, 3 and 1 bytes has been cut after its second char
C15_Witness ==
    /\ argument = Some([s |-> <<233, 8364, 120>>, max_chars |-> 2])
    /\ returns = Some(<<233, 8364>>)

\* c is exactly two times u, limb by limb with the carry k between them
twice(c, u) ==
    \E k \in {0, 1} :
        /\ c.lo + k * Limb = 2 * u.lo
        /\ c.hi = 2 * u.hi + k

\* C16: whatever context size is configured, an invocation does not panic
\* on the doubling, and its budget of chars is exactly two times its
\* context size.
C16_BudgetIsTwiceContextSize ==
    \A r \in Runs :
        frame[r].pc # "idle" =>
            /\ frame[r].panic_site # "2 * llm_ctx_size"
            /\ twice(frame[r].ctx_size_char, frame[r].llm_ctx_size)

\* C17: the selection applied a second time to the same file list, and
\* applied to the files it selected, yields the files it selected the first
\* time, in the same order.
C17_SelectionIdempotent ==
    (returns # None /\ Len(returns[1]) = 3) =>
        /\ returns[1][2] = returns[1][1]
        /\ returns[1][3] = returns[1][1]

\* of a list of one skipped and one selected file, three selections have
\* each yielded the selected one
C17_Witness ==
    /\ argument = Some(<<F_md, F_a>>)
    /\ returns = Some(<<<<F_a>>, <<F_a>>, <<F_a>>>>)

\* invocation r has the whole of its document: list_files has returned,
\* and every file of the list that is not excluded has been fetched and
\* the model request for it has returned
complete(r) ==
    /\ ops(r, "list_files") # {}
    /\ \A m \in DOMAIN frame[r].files :
           ~excluded(frame[r].files[m]) =>
               /\ \E i \in ops(r, "get") : calls[r][i].args[2] = m
               /\ \E i \in ops(r, "chat_completion") : calls[r][i].args[4] = m

SessionIds == (5 :> "PR#5") @@ (42 :> "PR#42")

\* C18: the model requests of an invocation are made one at a time in the
\* order of the files: each request in its log has returned, the requests
\* are for files further and further down the list, and a request that is
\* under way is for a file after all of them; each request names the
\* session of the pull request and restart = TRUE; update_comment is the
\* last call, made when every file that is not excluded has been fetched
\* and the request for every file that was read has returned.
C18_RequestsOneAtATimeInOrder ==
    \A r \in Runs :
        /\ \A i \in ops(r, "chat_completion") :
               /\ calls[r][i].result = Err \/ calls[r][i].result[1] = "Ok"
               /\ calls[r][i].args[1] = SessionIds[frame[r].pull_number]
               /\ calls[r][i].args[3].restart = TRUE
               /\ frame[r].pc = "chat_completion" => calls[r][i].args[4] < frame[r].idx
               /\ \A j \in ops(r, "chat_completion") :
                      i < j => calls[r][i].args[4] < calls[r][j].args[4]
        /\ \A u \in ops(r, "update_comment") :
               /\ u = Len(calls[r])
               /\ \A m \in DOMAIN frame[r].files :
                      ~excluded(frame[r].files[m]) =>
                          /\ \E g \in ops(r, "get") :
                                 g < u /\ calls[r][g].args[2] = m
                          /\ \A t \in ops(r, "text") :
                                 (calls[r][t].args[2] = m /\ calls[r][t].result # Err)
                                     => \E c \in ops(r, "chat_completion") :
                                            c < u /\ calls[r][c].args[4] = m

\* an invocation for PR #42 has made the requests for a.py and b.rs, in
\* that order, and then published
C18_Witness ==
    \E r \in Runs :
        /\ frame[r].pull_number = 42
        /\ frame[r].files = <<F_a, F_b>>
        /\ Len(calls[r]) = 9
        /\ calls[r][5].op = "chat_completion" /\ calls[r][5].args[4] = 1
        /\ calls[r][8].op = "chat_completion" /\ calls[r][8].args[4] = 2
        /\ calls[r][8].args[1] = "PR#42"
        /\ calls[r][9].op = "update_comment"

\* C19: an invocation whose list_files call has failed holds a comment id,
\* does not stop there and does not panic: it goes on to update_comment,
\* and when it has returned it has called update_comment once, with that
\* id and with the preamble alone as the body; when that call succeeded,
\* the comment holds the preamble and nothing else.
C19_FailedListFilesPublishesBarePreamble ==
    \A r \in Runs :
        (\E l \in ops(r, "list_files") : calls[r][l].result = Err) =>
            /\ frame[r].comment_id # 0
            /\ frame[r].pc \in {"update_comment", "returned"}
            /\ frame[r].pc = "update_comment" => ops(r, "update_comment") = {}
            /\ frame[r].pc = "returned" =>
                   /\ Cardinality(ops(r, "update_comment")) = 1
                   /\ \A u \in ops(r, "update_comment") :
                          /\ calls[r][u].args = <<frame[r].comment_id, Preamble>>
                          /\ calls[r][u].result # Err =>
                                 \A i \in DOMAIN comments :
                                     comments[i].id = frame[r].comment_id
                                         => comments[i].body = Preamble

\* a Synchronize run whose list_files call failed has replaced the text of
\* the comment it tracked by the preamble alone
C19_Witness ==
    \E r \in Runs :
        /\ frame[r].new_commit
        /\ frame[r].pc = "returned"
        /\ \E l \in ops(r, "list_files") : calls[r][l].result = Err
        /\ \E i \in DOMAIN comments :
               /\ comments[i].id = frame[r].comment_id
               /\ before[r][i].body = LegacyBody
               /\ comments[i].body = Preamble

=============================================================================
